---- MODULE Spec2Model ----
(***************************************************************************)
(* A model of the serverless cost calculator: the cost calculator         *)
(* (src/src/calculator.rs) and the two workload normalizers               *)
(* (src/src/source.rs, WorkloadDescription::mysql and ::tidb).            *)
(*                                                                         *)
(* Numbers.  u64 quantities are naturals; every input set below keeps all *)
(* intermediate values far below 2^31, hence far below 2^64, so the u64   *)
(* operations of the code never wrap on the inputs explored and `/` is    *)
(* the truncating \div.  f64 dollar amounts are modelled by the exact     *)
(* rational they denote, as an integer count of 1/CostScale dollars       *)
(* (prices are held in cents, the code divides by 1024f64); f64 rounding  *)
(* is not modelled.                                                        *)
(***************************************************************************)
EXTENDS Integers, Sequences, FiniteSets, TLC

VARIABLES
    pc,           \* position of the caller of calculator::estimate
    region,       \* the region string handed to estimate
    workloads,    \* the &[WorkloadDescription] handed to estimate
    usages,       \* the Vec<WorkloadUsage> estimate computes first
    result,       \* the Result<Vec<WorkloadEstimation>> estimate returns
    engine,       \* which normalizer ran: "none", "mysql" or "tidb"
    tables,       \* TablesInformation given to the normalizer
    summary,      \* Option<statements summary> given to the normalizer
    metrics,      \* TiDBSystemMetrics given to the normalizer
    description,  \* what the normalizer returned, or that it panicked
    divisors,     \* the divisor of every division the normalizer evaluated
    advisories,   \* the messages the normalizer printed, in order
    format,       \* the OutputFormat of the report: "Human", "Json" or "Yaml"
    presented,    \* the total of every cluster the human report printed
    lpc,          \* position in load_workload_description
    analyze_before_start,  \* its parameter
    server,       \* the server connected to: its version() and variables
    lines,        \* the lines confirm_and_run_analyze read from stdin
    pending,      \* the tables run_analyze has still to analyze
    analyzed,     \* the tables an ANALYZE TABLE statement was executed on
    stmt_summary, \* what read_tidb_statements_summary returned
    interval,     \* the `interval` of read_tidb_system_metrics, in days
    probes,       \* the metrics queries it ran: the window and the rows, if any
    invoked,      \* the normalizers load_workload_description called
    loaded        \* what load_workload_description returned

vars == <<pc, region, workloads, usages, result,
          engine, tables, summary, metrics, description, divisors, advisories,
          format, presented,
          lpc, analyze_before_start, server, lines, pending, analyzed,
          stmt_summary, interval, probes, invoked, loaded>>

calcVars == <<pc, region, workloads, usages, result>>
normVars == <<engine, tables, summary, metrics, description, divisors, advisories>>
outVars == <<format, presented>>
loadVars == <<lpc, analyze_before_start, server, lines, pending, analyzed,
              stmt_summary, interval, probes, invoked, loaded>>

----------------------------------------------------------------------------
(* Option<u64> and Result *)

None == [is_some |-> FALSE, value |-> 0]
Some(v) == [is_some |-> TRUE, value |-> v]
unwrap_or(opt, default) == IF opt.is_some THEN opt.value ELSE default

Ok(v) == [is_ok |-> TRUE, value |-> v, error |-> ""]
\* anyhow!("The region '{}' is invalid", region): the error carries the region
Err(r) == [is_ok |-> FALSE, value |-> <<>>, error |-> r]

Max(a, b) == IF a >= b THEN a ELSE b

----------------------------------------------------------------------------
(* calculator.rs *)

KILO == 1024
MEGA == KILO * 1024
HOURS_PER_MONTH == 730

\* Dollar amounts are integers in units of 1/CostScale dollar: a price held
\* in cents, times a MiB count, is the f64 product over 1024f64 * 100.
CostScale == KILO * 100

\* The match arms of estimate: (row_based_price, ru_price, free_credit), in
\* cents; an absent region is the `_` arm.
ValidRegions ==
    {"us-east-1", "us-west-2", "eu-central-1", "ap-southeast-1", "ap-northeast-1"}

\* (a variant of RegionPrices: the us-east-1 triple copied to every arm)
RegionPrices_copied(r) ==
    [row_based_price |-> 20, ru_price |-> 10, free_credit |-> 600]

RegionPrices(r) ==
    CASE r = "us-east-1"      -> [row_based_price |-> 20, ru_price |-> 10, free_credit |-> 600]
      [] r = "us-west-2"      -> [row_based_price |-> 20, ru_price |-> 10, free_credit |-> 600]
      [] r = "eu-central-1"   -> [row_based_price |-> 24, ru_price |-> 12, free_credit |-> 720]
      [] r = "ap-southeast-1" -> [row_based_price |-> 24, ru_price |-> 12, free_credit |-> 720]
      [] r = "ap-northeast-1" -> [row_based_price |-> 24, ru_price |-> 12, free_credit |-> 720]

\* (a variant of read_requests_used: the egress rate read for the read rate)
read_requests_used_egress(workload) == unwrap_or(workload.egress.requests_per_hour, 0)

\* workload.read.requests_per_hour.unwrap_or(0), workload.write...unwrap_or(0)
read_requests_used(workload) == unwrap_or(workload.read.requests_per_hour, 0)
write_requests_used(workload) == unwrap_or(workload.write.requests_per_hour, 0)

read_request_units_per_hour(workload) ==
    (read_requests_used(workload) \div 8)
        + (workload.read.bytes_per_hour \div (64 * KILO))

\* (a variant of write_request_units_per_hour: only the bytes tripled)
write_request_units_per_hour_bytes_tripled(workload) ==
    write_requests_used(workload) + (workload.write.bytes_per_hour \div KILO) * 3

write_request_units_per_hour(workload) ==
    (write_requests_used(workload) + (workload.write.bytes_per_hour \div KILO)) * 3

request_units_per_hour(workload) ==
    read_request_units_per_hour(workload) + write_request_units_per_hour(workload)

\* (variants of row_based_storage_in_mib: the index left out; `%` for `/`)
row_based_storage_in_mib_data_only(workload) ==
    workload.storage.data_in_bytes \div MEGA

row_based_storage_in_mib_rem(workload) ==
    (workload.storage.data_in_bytes + workload.storage.index_in_bytes) % MEGA

row_based_storage_in_mib(workload) ==
    (workload.storage.data_in_bytes + workload.storage.index_in_bytes) \div MEGA

\* (a variant of network_egress_in_mib: the hourly rate left unscaled)
network_egress_in_mib_hourly(workload) ==
    workload.egress.bytes_per_hour \div MEGA

network_egress_in_mib(workload) ==
    (workload.egress.bytes_per_hour * HOURS_PER_MONTH) \div MEGA

request_units_in_million(workload) ==
    (request_units_per_hour(workload) * HOURS_PER_MONTH) \div MEGA

\* the closure of estimate_usages: one WorkloadUsage from one description
usage_of(workload) ==
    [row_based_storage_in_mib |-> row_based_storage_in_mib(workload),
     network_egress_in_mib    |-> network_egress_in_mib(workload),
     request_units_in_million |-> request_units_in_million(workload)]

\* (a variant of estimate_usages: the usages collected in reverse order)
estimate_usages_reversed(ws) == [i \in 1..Len(ws) |-> usage_of(ws[Len(ws) + 1 - i])]

\* workloads.iter().map(..).collect(): same length, same order
estimate_usages(ws) == [i \in 1..Len(ws) |-> usage_of(ws[i])]

\* usage.row_based_storage_in_mib as f64 * row_based_price / 1024f64
storage_cost(row_based_price, usage) ==
    usage.row_based_storage_in_mib * row_based_price

\* ((usage.network_egress_in_mib as f64 / 1024f64)
\*      + usage.request_units_in_million as f64) * ru_price
request_units_cost(ru_price, usage) ==
    (usage.network_egress_in_mib + KILO * usage.request_units_in_million) * ru_price

estimation_of(row_based_price, ru_price, free_credit, usage) ==
    [storage_cost       |-> storage_cost(row_based_price, usage),
     request_units_cost |-> request_units_cost(ru_price, usage),
     free_credit        |-> free_credit * KILO]

\* usages.into_iter().map(..).collect()
calculate(row_based_price, ru_price, free_credit, us) ==
    [i \in 1..Len(us) |-> estimation_of(row_based_price, ru_price, free_credit, us[i])]

\* (a variant of estimate: an unknown region priced as us-east-1)
estimate_default_arm(r, ws) ==
    LET us == estimate_usages(ws)
        q  == IF r \in ValidRegions THEN r ELSE "us-east-1"
    IN  Ok(calculate(RegionPrices(q).row_based_price, RegionPrices(q).ru_price,
                     RegionPrices(q).free_credit, us))

estimate(r, ws) ==
    LET us == estimate_usages(ws)
    IN  IF r \in ValidRegions
        THEN Ok(calculate(RegionPrices(r).row_based_price, RegionPrices(r).ru_price,
                          RegionPrices(r).free_credit, us))
        ELSE Err(r)

----------------------------------------------------------------------------
(* source.rs: the normalizers *)

TARGET_REGION_SIZE == 256 * 1024 * 1024
MINUTES_PER_HOUR == 60

\* Default::default() of WorkloadDescription
DefaultDescription ==
    [read    |-> [requests_per_hour |-> None, bytes_per_hour |-> 0],
     write   |-> [requests_per_hour |-> None, bytes_per_hour |-> 0],
     egress  |-> [requests_per_hour |-> None, bytes_per_hour |-> 0],
     storage |-> [data_in_bytes |-> 0, index_in_bytes |-> 0]]

\* A u64 division.  Rust panics on a zero divisor; the normalizers below
\* report that as a panicked outcome, and the quotient is then never used.
div(a, b) == IF b = 0 THEN 0 ELSE a \div b

Returned(d) == [panicked |-> FALSE, value |-> d]
Panicked == [panicked |-> TRUE, value |-> DefaultDescription]

\* chrono's Duration::num_minutes of end_time - start_time (times in whole
\* seconds): the quotient truncates toward zero
num_minutes(start_time, end_time) ==
    IF end_time >= start_time
    THEN (end_time - start_time) \div 60
    ELSE 0 - ((start_time - end_time) \div 60)

\* (a variant of duration_in_minutes: the window clamped to 0, not to 1)
duration_in_minutes_from_zero(s) == Max(num_minutes(s.start_time, s.end_time), 0)

\* max(summary.end_time.sub(summary.start_time).num_minutes(), 1) as u64
duration_in_minutes(s) == Max(num_minutes(s.start_time, s.end_time), 1)

\* (a variant of check_summary_duration: `<=` for `<`)
check_summary_duration_inclusive(minutes) ==
    IF minutes <= MINUTES_PER_HOUR THEN <<"error_less_than_an_hour">>
    ELSE IF minutes <= MINUTES_PER_HOUR * 24 THEN <<"warn_less_than_a_day">>
    ELSE <<>>

\* check_summary_duration: what it prints
check_summary_duration(minutes) ==
    IF minutes < MINUTES_PER_HOUR THEN <<"error_less_than_an_hour">>
    ELSE IF minutes < MINUTES_PER_HOUR * 24 THEN <<"warn_less_than_a_day">>
    ELSE <<>>

\* max(index.unwrap_or(0) + data.unwrap_or(0), 1) of WorkloadDescription::mysql
total_storage_in_bytes(t) ==
    Max(unwrap_or(t.total_index_in_bytes, 0) + unwrap_or(t.total_data_in_bytes, 0), 1)

\* max(tables.total_rows.unwrap_or(0), 1)
rows_divisor(t) == Max(unwrap_or(t.total_rows, 0), 1)

\* max(MINUTES_PER_HOUR * queries / duration_in_minutes, 1)
queries_per_hour(queries, minutes) ==
    Max(div(MINUTES_PER_HOUR * queries, minutes), 1)

\* (a variant of regions_per_query: the quotient left unclamped)
regions_per_query_unclamped(bytes_per_request, regions, total_storage) ==
    div(bytes_per_request * regions, total_storage)

\* max(bytes_per_request * estimated_number_of_regions / total_storage, 1)
regions_per_query(bytes_per_request, regions, total_storage) ==
    Max(div(bytes_per_request * regions, total_storage), 1)

\* The values WorkloadDescription::mysql computes, by the names of its lets.
mysql_lets(t, s) ==
    LET minutes   == duration_in_minutes(s)
        total     == total_storage_in_bytes(t)
        row_size  == div(total, rows_divisor(t))
        regions   == div(total, TARGET_REGION_SIZE)
        r_bytes   == div(MINUTES_PER_HOUR * row_size * s.read_rows, minutes)
        r_queries == queries_per_hour(s.read_queries, minutes)
        r_per_req == div(r_bytes, r_queries)
        r_regions == regions_per_query(r_per_req, regions, total)
        w_bytes   == div(MINUTES_PER_HOUR * row_size * s.write_rows, minutes)
        w_queries == queries_per_hour(s.write_queries, minutes)
        w_per_req == div(w_bytes, w_queries)
        w_regions == regions_per_query(w_per_req, regions, total)
        e_bytes   == div(MINUTES_PER_HOUR * row_size * s.sent_rows, minutes)
    IN  [duration_in_minutes         |-> minutes,
         total_storage_in_bytes      |-> total,
         average_row_size_in_bytes   |-> row_size,
         estimated_number_of_regions |-> regions,
         read_bytes_per_hour         |-> r_bytes,
         read_queries_per_hour       |-> r_queries,
         read_regions_per_query      |-> r_regions,
         write_bytes_per_hour        |-> w_bytes,
         write_queries_per_hour      |-> w_queries,
         write_regions_per_query     |-> w_regions,
         egress_bytes_per_hour       |-> e_bytes]

\* The divisor of every `/` of WorkloadDescription::mysql, in source order
mysql_divisors(t, s) ==
    LET l == mysql_lets(t, s)
    IN  <<rows_divisor(t), TARGET_REGION_SIZE,
          l.duration_in_minutes, l.duration_in_minutes,
          l.read_queries_per_hour, l.total_storage_in_bytes,
          l.duration_in_minutes, l.duration_in_minutes,
          l.write_queries_per_hour, l.total_storage_in_bytes,
          l.duration_in_minutes>>

HasZero(ds) == \E i \in 1..Len(ds) : ds[i] = 0

mysql(t, s) ==
    LET l == mysql_lets(t, s)
    IN  IF HasZero(mysql_divisors(t, s)) THEN Panicked
        ELSE Returned(
          [read    |-> [requests_per_hour |->
                           Some(l.read_queries_per_hour * l.read_regions_per_query),
                        bytes_per_hour |-> l.read_bytes_per_hour],
           write   |-> [requests_per_hour |->
                           Some(l.write_queries_per_hour * l.write_regions_per_query),
                        bytes_per_hour |-> l.write_bytes_per_hour],
           egress  |-> [requests_per_hour |-> None,
                        bytes_per_hour |-> l.egress_bytes_per_hour],
           storage |-> [data_in_bytes  |-> unwrap_or(t.total_data_in_bytes, 0),
                        index_in_bytes |-> unwrap_or(t.total_index_in_bytes, 0)]])

mysql_advisories(s) == check_summary_duration(duration_in_minutes(s))

\* WorkloadDescription::tidb; `os` is the Option<TiDBStatementsSummary>
tidb_divisors(t, os) ==
    IF os.is_some
    THEN <<rows_divisor(t), duration_in_minutes(os.value), duration_in_minutes(os.value)>>
    ELSE <<>>

\* (a variant of tidb: the write bytes taken from the metrics in both cases)
tidb_write_bytes_from_metrics(t, os, m) ==
    LET minutes  == duration_in_minutes(os.value)
        row_size == div(unwrap_or(t.total_index_in_bytes, 0)
                            + unwrap_or(t.total_data_in_bytes, 0),
                        rows_divisor(t))
        s_bytes  == IF os.is_some
                    THEN div(MINUTES_PER_HOUR * os.value.sent_rows * row_size, minutes)
                    ELSE 0
    IN  Returned(
          [read    |-> [requests_per_hour |-> Some(m.read_requests_per_hour),
                        bytes_per_hour |-> m.read_bytes_per_hour],
           write   |-> [requests_per_hour |-> Some(m.write_requests_per_hour),
                        bytes_per_hour |-> m.write_bytes_per_hour],
           egress  |-> [requests_per_hour |-> None, bytes_per_hour |-> s_bytes],
           storage |-> [data_in_bytes  |-> unwrap_or(t.total_data_in_bytes, 0),
                        index_in_bytes |-> unwrap_or(t.total_index_in_bytes, 0)]])

tidb(t, os, m) ==
    LET minutes  == duration_in_minutes(os.value)
        row_size == div(unwrap_or(t.total_index_in_bytes, 0)
                            + unwrap_or(t.total_data_in_bytes, 0),
                        rows_divisor(t))
        w_bytes  == IF os.is_some
                    THEN div(MINUTES_PER_HOUR * os.value.write_bytes, minutes)
                    ELSE m.write_bytes_per_hour
        s_bytes  == IF os.is_some
                    THEN div(MINUTES_PER_HOUR * os.value.sent_rows * row_size, minutes)
                    ELSE 0
    IN  IF HasZero(tidb_divisors(t, os)) THEN Panicked
        ELSE Returned(
          [read    |-> [requests_per_hour |-> Some(m.read_requests_per_hour),
                        bytes_per_hour |-> m.read_bytes_per_hour],
           write   |-> [requests_per_hour |-> Some(m.write_requests_per_hour),
                        bytes_per_hour |-> w_bytes],
           egress  |-> [requests_per_hour |-> None, bytes_per_hour |-> s_bytes],
           storage |-> [data_in_bytes  |-> unwrap_or(t.total_data_in_bytes, 0),
                        index_in_bytes |-> unwrap_or(t.total_index_in_bytes, 0)]])

tidb_advisories(os) ==
    IF os.is_some
    THEN check_summary_duration(duration_in_minutes(os.value))
    ELSE <<"warn_summary_tables_disabled", "warn_summary_tables_instruction">>

\* The divisors a run evaluates: those up to and including the first zero
Evaluated(ds) ==
    IF HasZero(ds)
    THEN SubSeq(ds, 1, CHOOSE i \in 1..Len(ds) :
                          ds[i] = 0 /\ \A j \in 1..(i - 1) : ds[j] # 0)
    ELSE ds

----------------------------------------------------------------------------
(* source.rs: text matching of load_workload_description and its helpers *)

\* Text is a sequence of one-character strings.
At(s, i) == IF i \in 1..Len(s) THEN s[i] ELSE ""

Digits == {"0", "1", "2", "3", "4", "5", "6", "7", "8", "9"}
UpperCase == <<"A", "B", "C", "D", "E", "F", "G", "H", "I", "J", "K", "L", "M",
               "N", "O", "P", "Q", "R", "S", "T", "U", "V", "W", "X", "Y", "Z">>
LowerCase == <<"a", "b", "c", "d", "e", "f", "g", "h", "i", "j", "k", "l", "m",
               "n", "o", "p", "q", "r", "s", "t", "u", "v", "w", "x", "y", "z">>
WhiteSpace == {" ", "\n", "\t", "\r"}

\* char::to_lowercase, for ASCII
lower(c) ==
    IF \E k \in 1..Len(UpperCase) : UpperCase[k] = c
    THEN LowerCase[CHOOSE k \in 1..Len(UpperCase) : UpperCase[k] = c]
    ELSE c

\* str::to_lowercase
to_lowercase(s) == [i \in 1..Len(s) |-> lower(s[i])]

\* str::trim: leading and trailing white space removed
trim(s) ==
    LET kept == {i \in 1..Len(s) : s[i] \notin WhiteSpace}
    IN  IF kept = {} THEN <<>>
        ELSE SubSeq(s, CHOOSE i \in kept : \A j \in kept : i <= j,
                       CHOOSE i \in kept : \A j \in kept : i >= j)

\* the position after the longest run of digits that starts at i
RECURSIVE DigitsEnd(_, _)
DigitsEnd(s, i) == IF At(s, i) \in Digits THEN DigitsEnd(s, i + 1) ELSE i

\* \d+\.\d+\.\d+ at position i: the position after the match, or 0
Num3End(s, i) ==
    LET a == DigitsEnd(s, i)
        b == DigitsEnd(s, a + 1)
        c == DigitsEnd(s, b + 1)
    IN  IF a > i /\ At(s, a) = "." /\ b > a + 1 /\ At(s, b) = "." /\ c > b + 1
        THEN c ELSE 0

\* (?i)word(?-i) at position i: the position after the match, or 0
NoCaseEnd(s, i, word) ==
    IF \A k \in 1..Len(word) : lower(At(s, i + k - 1)) = word[k]
    THEN i + Len(word) ELSE 0

\* "^\d+\.\d+\.\d+-(?i)product(?-i)-": the position after the match, or 0
ProductEnd(s, product) ==
    LET a == Num3End(s, 1)
        b == NoCaseEnd(s, a + 1, product)
    IN  IF a > 0 /\ At(s, a) = "-" /\ b > 0 /\ At(s, b) = "-" THEN b + 1 ELSE 0

\* is_tidb: "^\d+\.\d+\.\d+-(?i)TiDB(?-i)-.*"
is_tidb(version) == ProductEnd(version, <<"t", "i", "d", "b">>) > 0

\* is_tidb_serverless:
\* "^\d+\.\d+\.\d+-(?i)TiDB(?-i)-v\d+\.\d+\.\d+-(?i)serverless(?-i).*"
is_tidb_serverless(version) ==
    LET a == ProductEnd(version, <<"t", "i", "d", "b">>)
        b == Num3End(version, a + 1)
    IN  /\ a > 0
        /\ At(version, a) = "v"
        /\ b > 0
        /\ At(version, b) = "-"
        /\ NoCaseEnd(version, b + 1,
                     <<"s", "e", "r", "v", "e", "r", "l", "e", "s", "s">>) > 0

\* is_mariadb: "^\d+\.\d+\.\d+-(?i)MariaDB(?-i)-.*"
is_mariadb(version) == ProductEnd(version, <<"m", "a", "r", "i", "a", "d", "b">>) > 0

\* check_variable_value: the row of SHOW VARIABLES, if any, has the value
check_variable_value(row, value) == row.is_some /\ row.value = value

\* variant: an answer is told by its first letter
confirmation_of_initial(line) ==
    LET answer == to_lowercase(trim(line))
    IN  IF At(answer, 1) = "y" THEN "yes"
        ELSE IF At(answer, 1) = "n" THEN "no"
        ELSE "other"

\* the match of confirm_and_run_analyze on confirmation.trim().to_lowercase()
confirmation_of(line) ==
    LET answer == to_lowercase(trim(line))
    IN  IF answer = <<"y", "e", "s">> THEN "yes"
        ELSE IF answer = <<"n", "o">> THEN "no"
        ELSE "other"

\* the fold of read_tidb_system_metrics over the rows <<type, Option<u64>>>
\* of a window of `hours` hours: the last row of a type sets its field
metric_per_hour(rows, type, hours) ==
    LET hits == {i \in 1..Len(rows) : rows[i][1] = type}
    IN  IF hits = {} THEN 0
        ELSE unwrap_or(rows[CHOOSE i \in hits : \A j \in hits : i >= j][2], 0) \div hours

\* variant: the sums are divided by the days of the window
system_metrics_per_day(rows, days) ==
    LET hours == days
    IN  [write_bytes_per_hour    |-> metric_per_hour(rows, "write_bytes", hours),
         write_requests_per_hour |-> metric_per_hour(rows, "write_requests", hours),
         read_bytes_per_hour     |-> metric_per_hour(rows, "read_bytes", hours),
         read_requests_per_hour  |-> metric_per_hour(rows, "read_requests", hours)]

system_metrics(rows, days) ==
    LET hours == days * 24
    IN  [write_bytes_per_hour    |-> metric_per_hour(rows, "write_bytes", hours),
         write_requests_per_hour |-> metric_per_hour(rows, "write_requests", hours),
         read_bytes_per_hour     |-> metric_per_hour(rows, "read_bytes", hours),
         read_requests_per_hour  |-> metric_per_hour(rows, "read_requests", hours)]

----------------------------------------------------------------------------
(* output.rs: the human report *)

OutputFormats == {"Human", "Json", "Yaml"}

\* Float::from_2 of an amount: the amount in whole cents, rounded to the
\* nearest cent (a tie to the even cent)
from_2(amount) ==
    LET q == amount \div KILO
        r == amount % KILO
    IN  IF r * 2 > KILO \/ (r * 2 = KILO /\ q % 2 = 1) THEN q + 1 ELSE q

\* "$0.00".to_string()
ZeroTotal == [amount |-> 0, cents |-> 0]

\* (a variant of total_of: the credit subtracted without the comparison)
total_of_unclamped(estimation) ==
    LET due == estimation.storage_cost + estimation.request_units_cost
                  - estimation.free_credit
    IN  [amount |-> due, cents |-> from_2(due)]

\* output_human_step: the `total` it prints, as the amount formatted and the
\* cents shown
total_of(estimation) ==
    IF estimation.storage_cost + estimation.request_units_cost <= estimation.free_credit
    THEN ZeroTotal
    ELSE LET due == estimation.storage_cost + estimation.request_units_cost
                       - estimation.free_credit
         IN  [amount |-> due, cents |-> from_2(due)]

\* output_human: one step per estimation, in order
output_human(estimations) == [i \in 1..Len(estimations) |-> total_of(estimations[i])]

\* report: only the human format prints totals; Json and Yaml serialize the
\* workloads with their estimations
report(f, estimations) == IF f = "Human" THEN output_human(estimations) ELSE <<>>

----------------------------------------------------------------------------
(* Inputs *)

\* The longest slice handed to estimate
MaxWorkloads == 2

\* Region strings: the five of the table and strings that are not in it
Regions ==
    ValidRegions \cup {"not-a-region", "", "US-EAST-1", "us-east-1 ", "eu-west-1"}

GiB == KILO * MEGA

Description(rr, rb, wr, wb, er, eb, d, x) ==
    [read    |-> [requests_per_hour |-> rr, bytes_per_hour |-> rb],
     write   |-> [requests_per_hour |-> wr, bytes_per_hour |-> wb],
     egress  |-> [requests_per_hour |-> er, bytes_per_hour |-> eb],
     storage |-> [data_in_bytes |-> d, index_in_bytes |-> x]]

\* a workload with no usage at all
ZeroDescription == Description(Some(0), 0, Some(0), 0, None, 0, 0, 0)

ReadRequests  == {None, Some(0), Some(7), Some(8), Some(691200), Some(8000000)}
ReadBytes     == {0, 64 * KILO}
WriteRequests == {None, Some(0), Some(1), Some(500000)}
WriteBytes    == {0, KILO}
EgressBytes   == {0, MEGA, 2 * MEGA}
DataBytes     == {0, 1, MEGA - 1, MEGA, MEGA + 1, GiB}
IndexBytes    == {0, MEGA}

\* The descriptions handed to estimate: the zero workload, every change of
\* one field of it, and some workloads with several fields set.
CalcDescriptions ==
    {Description(rr, 0, Some(0), 0, None, 0, 0, 0) : rr \in ReadRequests}
    \cup {Description(Some(0), rb, Some(0), 0, None, 0, 0, 0) : rb \in ReadBytes}
    \cup {Description(Some(0), 0, wr, 0, None, 0, 0, 0) : wr \in WriteRequests}
    \cup {Description(Some(0), 0, Some(0), wb, None, 0, 0, 0) : wb \in WriteBytes}
    \cup {Description(Some(0), 0, Some(0), 0, None, eb, 0, 0) : eb \in EgressBytes}
    \cup {Description(Some(0), 0, Some(0), 0, None, 0, d, 0) : d \in DataBytes}
    \cup {Description(Some(0), 0, Some(0), 0, None, 0, 0, x) : x \in IndexBytes}
    \cup {DefaultDescription,
          Description(None, 64 * KILO, None, KILO, None, MEGA, MEGA, 0),
          Description(Some(8000000), 64 * KILO, Some(500000), KILO, Some(5), 2 * MEGA,
                      GiB, MEGA),
          Description(Some(7), 0, Some(1), KILO, None, MEGA, MEGA - 1, MEGA),
          Description(Some(8), 64 * KILO, None, 0, None, 0, 1, MEGA)}

NoResult == Err("<estimate has not returned>")

\* TablesInformation rows: every field an Option<u64>
TablesInputs ==
    [total_rows           : {None, Some(0), Some(1000)},
     total_data_in_bytes  : {None, Some(0), Some(4 * MEGA)},
     total_index_in_bytes : {None, Some(0), Some(MEGA)}]

\* Summary windows <<start_time, end_time>> in seconds: negative, empty,
\* under a minute, a minute, half an hour, a second under an hour, an hour,
\* a second under a day, a day, seven days
Windows ==
    {<<3600, 0>>, <<0, 0>>, <<0, 59>>, <<0, 60>>, <<0, 1800>>, <<0, 3599>>,
     <<0, 3600>>, <<0, 86399>>, <<0, 86400>>, <<0, 604800>>}

MysqlSummaries ==
    {[read_queries |-> rq, read_rows |-> rr, sent_rows |-> sr, write_queries |-> wq,
      write_rows |-> wr, start_time |-> w[1], end_time |-> w[2]] :
        rq \in {0, 100}, rr \in {0, 5}, sr \in {0, 5}, wq \in {0, 100}, wr \in {0, 5},
        w \in Windows}

TidbSummaries ==
    {[read_queries |-> u, read_rows |-> u, sent_rows |-> sr, write_queries |-> u,
      write_bytes |-> wb, start_time |-> w[1], end_time |-> w[2]] :
        u \in {0, 100}, sr \in {0, 5}, wb \in {0, 100000}, w \in Windows}

\* Statistics of a large schema read over a short window, where one query
\* reads more than a region's worth of bytes: <<tables, summary>>
LargeTables ==
    {[total_rows |-> Some(64), total_data_in_bytes |-> Some(TARGET_REGION_SIZE),
      total_index_in_bytes |-> None],
     [total_rows |-> Some(128), total_data_in_bytes |-> Some(2 * TARGET_REGION_SIZE),
      total_index_in_bytes |-> Some(0)]}

ShortSummaries ==
    {[read_queries |-> rq, read_rows |-> rr, sent_rows |-> sr, write_queries |-> wq,
      write_rows |-> wr, start_time |-> w[1], end_time |-> w[2]] :
        rq \in {0, 1}, rr \in {0, 4}, sr \in {0, 4}, wq \in {0, 1}, wr \in {0, 4},
        w \in {<<0, 0>>, <<0, 60>>, <<0, 120>>}}

\* what WorkloadDescription::mysql is called with
MysqlInputs ==
    (TablesInputs \X MysqlSummaries) \cup (LargeTables \X ShortSummaries)

DefaultTidbSummary ==
    [read_queries |-> 0, read_rows |-> 0, sent_rows |-> 0, write_queries |-> 0,
     write_bytes |-> 0, start_time |-> 0, end_time |-> 0]

NoSummary == [is_some |-> FALSE, value |-> DefaultTidbSummary]
SomeSummary(s) == [is_some |-> TRUE, value |-> s]

DefaultMetrics ==
    [write_bytes_per_hour |-> 0, write_requests_per_hour |-> 0,
     read_bytes_per_hour |-> 0, read_requests_per_hour |-> 0]

MetricsInputs ==
    [write_bytes_per_hour    : {0, 2048},
     write_requests_per_hour : {0, 30},
     read_bytes_per_hour     : {0, 131072},
     read_requests_per_hour  : {0, 80}]

NoTables ==
    [total_rows |-> None, total_data_in_bytes |-> None, total_index_in_bytes |-> None]


\* SELECT version() of the servers connected to
Versions ==
    {<<"5", ".", "7", ".", "2", "5", "-", "T", "i", "D", "B", "-", "v", "6", ".", "5", ".", "0">>,
     <<"8", ".", "0", ".", "1", "1", "-", "t", "i", "d", "b", "-", "v", "7", ".", "1", ".", "1">>,
     <<"5", ".", "7", ".", "2", "8", "-", "T", "i", "D", "B", "-", "v", "7", ".", "1", ".", "3", "-", "s", "e", "r", "v", "e", "r", "l", "e", "s", "s">>,
     <<"8", ".", "0", ".", "1", "1", "-", "T", "I", "D", "B", "-", "v", "7", ".", "5", ".", "2", "-", "S", "e", "r", "v", "e", "r", "l", "e", "s", "s", "-", "x">>,
     <<"8", ".", "0", ".", "1", "1", "-", "T", "i", "D", "B", "-", "s", "e", "r", "v", "e", "r", "l", "e", "s", "s">>,
     <<"5", ".", "7", ".", "2", "5", "-", "T", "i", "D", "B">>,
     <<"1", "0", ".", "5", ".", "8", "-", "M", "a", "r", "i", "a", "D", "B", "-", "l", "o", "g">>,
     <<"8", ".", "0", ".", "3", "0">>}

\* a variable of SHOW VARIABLES: no row, or a row with its value
VariableRows == {[is_some |-> FALSE, value |-> ""], [is_some |-> TRUE, value |-> "ON"],
                 [is_some |-> TRUE, value |-> "OFF"]}

Servers ==
    [version : Versions, performance_schema : VariableRows,
     tidb_enable_stmt_summary : {[is_some |-> TRUE, value |-> "ON"],
                                 [is_some |-> TRUE, value |-> "OFF"]}]

\* the lines an operator may type at the prompt; the empty text is what
\* read_line leaves at end of input
ClosingLines == {<<"y", "e", "s", "\n">>, <<" ", " ", "Y", "E", "S", " ", "\r", "\n">>, <<"n", "o", "\n">>, <<"N", "o">>}
OtherLines == {<<>>, <<"y", "\n">>, <<"y", "e", "s", "!", "\n">>}

\* the most lines read at the prompt
MaxLines == 3

\* the base tables SHOW FULL TABLES lists
TableLists == {<<>>, <<"t1">>, <<"t1", "t2">>}

\* what read_tables_information and the summary readers return
LoadTables ==
    {NoTables,
     [total_rows |-> Some(1000), total_data_in_bytes |-> Some(4 * MEGA),
      total_index_in_bytes |-> Some(MEGA)]}

LoadMysqlSummaries ==
    {[read_queries |-> 0, read_rows |-> 0, sent_rows |-> 0, write_queries |-> 0,
      write_rows |-> 0, start_time |-> 0, end_time |-> 604800],
     [read_queries |-> 100, read_rows |-> 5, sent_rows |-> 5, write_queries |-> 100,
      write_rows |-> 5, start_time |-> 0, end_time |-> 3600]}

LoadTidbSummaries ==
    {[read_queries |-> 100, read_rows |-> 100, sent_rows |-> 5, write_queries |-> 100,
      write_bytes |-> 100000, start_time |-> 0, end_time |-> 86400]}

\* the rows of the metrics query: every sum present, a NULL sum, a row missing
MetricRows ==
    {<<<<"write_bytes", Some(168000)>>, <<"write_requests", Some(16800)>>,
       <<"read_bytes", Some(1680000)>>, <<"read_requests", Some(33600)>>>>,
     <<<<"write_bytes", None>>, <<"write_requests", Some(500)>>,
       <<"read_bytes", None>>, <<"read_requests", Some(167)>>>>,
     <<<<"read_requests", Some(24)>>>>}

NotLoaded == [kind |-> "pending", error |-> "", value |-> DefaultDescription]
LoadedNone == [kind |-> "none", error |-> "", value |-> DefaultDescription]
LoadedSome(d) == [kind |-> "some", error |-> "", value |-> d]
LoadFailed(e) == [kind |-> "err", error |-> e, value |-> DefaultDescription]

\* the Err of a metrics query
NoRows == [is_some |-> FALSE, value |-> <<>>]

----------------------------------------------------------------------------
(* The calculator: a caller builds the slice and calls estimate once *)

CalcStart ==
    /\ pc = "start"
    /\ workloads = <<>>
    /\ usages = <<>>
    /\ result = NoResult

NormStart ==
    /\ engine = "none"
    /\ tables = NoTables
    /\ summary = NoSummary
    /\ metrics = DefaultMetrics
    /\ description = Returned(DefaultDescription)
    /\ divisors = <<>>
    /\ advisories = <<>>

\* load_workload_description has not been called
LoadIdle ==
    /\ lpc = "idle"
    /\ analyze_before_start = FALSE
    /\ server = [version |-> <<>>, performance_schema |-> [is_some |-> FALSE, value |-> ""],
                 tidb_enable_stmt_summary |-> [is_some |-> TRUE, value |-> "OFF"]]
    /\ lines = <<>>
    /\ pending = <<>>
    /\ analyzed = <<>>
    /\ stmt_summary = NoSummary
    /\ interval = 7
    /\ probes = <<>>
    /\ invoked = <<>>
    /\ loaded = NotLoaded

OutStart ==
    /\ format = "Human"
    /\ presented = <<>>

Init ==
    /\ region \in Regions
    /\ CalcStart
    /\ NormStart
    /\ OutStart
    /\ LoadIdle

PushWorkload ==
    /\ pc = "start"
    /\ Len(workloads) < MaxWorkloads
    /\ \E w \in CalcDescriptions : workloads' = Append(workloads, w)
    /\ UNCHANGED <<pc, region, usages, result>>
    /\ UNCHANGED <<normVars, outVars, loadVars>>

Estimate ==
    /\ pc = "start"
    /\ usages' = estimate_usages(workloads)
    /\ result' = estimate(region, workloads)
    /\ pc' = "done"
    /\ UNCHANGED <<region, workloads>>
    /\ UNCHANGED <<normVars, outVars, loadVars>>

\* OutputFormat::report on the estimations estimate returned
Report ==
    /\ pc = "done"
    /\ result.is_ok
    /\ \E f \in OutputFormats :
          /\ format' = f
          /\ presented' = report(f, result.value)
    /\ pc' = "reported"
    /\ UNCHANGED <<region, workloads, usages, result>>
    /\ UNCHANGED <<normVars, loadVars>>

Next == PushWorkload \/ Estimate \/ Report

Spec == Init /\ [][Next]_vars

----------------------------------------------------------------------------
(* The normalizers: one of them is run once on the statistics read *)

NormInit ==
    /\ region = "us-east-1"
    /\ CalcStart
    /\ NormStart
    /\ OutStart
    /\ LoadIdle

NormalizeMysql ==
    /\ engine = "none"
    /\ \E in \in MysqlInputs :
          LET t == in[1]
              s == in[2]
          IN  /\ tables' = t
              /\ summary' = SomeSummary(s)
              /\ description' = mysql(t, s)
              /\ divisors' = Evaluated(mysql_divisors(t, s))
              /\ advisories' = mysql_advisories(s)
    /\ engine' = "mysql"
    /\ UNCHANGED metrics
    /\ UNCHANGED <<calcVars, outVars, loadVars>>

NormalizeTidb ==
    /\ engine = "none"
    /\ \E t \in TablesInputs, m \in MetricsInputs,
          os \in {NoSummary} \cup {SomeSummary(s) : s \in TidbSummaries} :
          /\ tables' = t
          /\ summary' = os
          /\ metrics' = m
          /\ description' = tidb(t, os, m)
          /\ divisors' = Evaluated(tidb_divisors(t, os))
          /\ advisories' = tidb_advisories(os)
    /\ engine' = "tidb"
    /\ UNCHANGED <<calcVars, outVars, loadVars>>

NormNext == NormalizeMysql \/ NormalizeTidb

NormSpec == NormInit /\ [][NormNext]_vars

----------------------------------------------------------------------------
(* source.rs: load_workload_description, one action per awaited step; every
   query may fail, and `?` then returns the error to the caller *)

Failed(e) ==
    /\ lpc' = "returned"
    /\ loaded' = LoadFailed(e)

LoadInit ==
    /\ region = "us-east-1"
    /\ CalcStart
    /\ NormStart
    /\ OutStart
    /\ lpc = "connect"
    /\ analyze_before_start \in BOOLEAN
    /\ server \in Servers
    /\ lines = <<>>
    /\ pending = <<>>
    /\ analyzed = <<>>
    /\ stmt_summary = NoSummary
    /\ interval = 7
    /\ probes = <<>>
    /\ invoked = <<>>
    /\ loaded = NotLoaded

\* sqlx::MySqlPool::connect(..).await?, then `if analyze_before_start`
Connect ==
    /\ lpc = "connect"
    /\ \E ok \in BOOLEAN :
          IF ok
          THEN /\ lpc' = IF analyze_before_start THEN "confirm" ELSE "read_tables"
               /\ UNCHANGED loaded
          ELSE Failed("query")
    /\ UNCHANGED <<analyze_before_start, server, lines, pending, analyzed,
                   stmt_summary, interval, probes, invoked>>
    /\ UNCHANGED <<calcVars, normVars, outVars>>

\* one turn of the loop of confirm_and_run_analyze
Confirm ==
    /\ lpc = "confirm"
    /\ Len(lines) < MaxLines
    /\ \/ \E line \in ClosingLines \cup OtherLines :
             /\ lines' = Append(lines, line)
             /\ lpc' = CASE confirmation_of(line) = "yes" -> "run_analyze"
                         [] confirmation_of(line) = "no"  -> "read_tables"
                         [] OTHER                         -> "confirm"
             /\ UNCHANGED loaded
       \/ /\ Failed("io")
          /\ UNCHANGED lines
    /\ UNCHANGED <<analyze_before_start, server, pending, analyzed,
                   stmt_summary, interval, probes, invoked>>
    /\ UNCHANGED <<calcVars, normVars, outVars>>

\* run_analyze: SHOW FULL TABLES
RunAnalyze ==
    /\ lpc = "run_analyze"
    /\ \/ \E listed \in TableLists :
             /\ pending' = listed
             /\ lpc' = IF listed = <<>> THEN "read_tables" ELSE "analyze_table"
             /\ UNCHANGED loaded
       \/ /\ Failed("query")
          /\ UNCHANGED pending
    /\ UNCHANGED <<analyze_before_start, server, lines, analyzed,
                   stmt_summary, interval, probes, invoked>>
    /\ UNCHANGED <<calcVars, normVars, outVars>>

\* run_analyze: one turn of `for table in tables`
AnalyzeTable ==
    /\ lpc = "analyze_table"
    /\ pending # <<>>
    /\ analyzed' = Append(analyzed, Head(pending))
    /\ \E ok \in BOOLEAN :
          IF ok
          THEN /\ pending' = Tail(pending)
               /\ lpc' = IF Tail(pending) = <<>> THEN "read_tables" ELSE "analyze_table"
               /\ UNCHANGED loaded
          ELSE /\ Failed("query")
               /\ UNCHANGED pending
    /\ UNCHANGED <<analyze_before_start, server, lines,
                   stmt_summary, interval, probes, invoked>>
    /\ UNCHANGED <<calcVars, normVars, outVars>>

\* read_tables_information(..).await?
ReadTablesInformation ==
    /\ lpc = "read_tables"
    /\ \/ \E t \in LoadTables :
             /\ tables' = t
             /\ lpc' = "is_tidb"
             /\ UNCHANGED loaded
       \/ /\ Failed("query")
          /\ UNCHANGED tables
    /\ UNCHANGED <<analyze_before_start, server, lines, pending, analyzed,
                   stmt_summary, interval, probes, invoked>>
    /\ UNCHANGED <<engine, summary, metrics, description, divisors, advisories>>
    /\ UNCHANGED <<calcVars, outVars>>

\* `if is_tidb(&pool).await?`
IsTidb ==
    /\ lpc = "is_tidb"
    /\ \E ok \in BOOLEAN :
          IF ok
          THEN /\ lpc' = IF is_tidb(server.version)
                         THEN "is_tidb_serverless" ELSE "is_performance_schema"
               /\ UNCHANGED loaded
          ELSE Failed("query")
    /\ UNCHANGED <<analyze_before_start, server, lines, pending, analyzed,
                   stmt_summary, interval, probes, invoked>>
    /\ UNCHANGED <<calcVars, normVars, outVars>>

\* variant: a serverless cluster is read like any other TiDB
IsTidbServerless_read ==
    /\ lpc = "is_tidb_serverless"
    /\ \E ok \in BOOLEAN :
          IF ok
          THEN /\ lpc' = "statements_summary"
               /\ UNCHANGED loaded
          ELSE Failed("query")
    /\ UNCHANGED <<analyze_before_start, server, lines, pending, analyzed,
                   stmt_summary, interval, probes, invoked>>
    /\ UNCHANGED <<calcVars, normVars, outVars>>

\* `if is_tidb_serverless(&pool).await? { Ok(None) }`
IsTidbServerless ==
    /\ lpc = "is_tidb_serverless"
    /\ \E ok \in BOOLEAN :
          IF ok
          THEN IF is_tidb_serverless(server.version)
               THEN /\ lpc' = "returned"
                    /\ loaded' = LoadedNone
               ELSE /\ lpc' = "statements_summary"
                    /\ UNCHANGED loaded
          ELSE Failed("query")
    /\ UNCHANGED <<analyze_before_start, server, lines, pending, analyzed,
                   stmt_summary, interval, probes, invoked>>
    /\ UNCHANGED <<calcVars, normVars, outVars>>

\* read_tidb_statements_summary(..).await?
ReadTidbStatementsSummary ==
    /\ lpc = "statements_summary"
    /\ \/ /\ ~check_variable_value(server.tidb_enable_stmt_summary, "ON")
          /\ stmt_summary' = NoSummary
          /\ lpc' = "system_metrics"
          /\ UNCHANGED loaded
       \/ /\ check_variable_value(server.tidb_enable_stmt_summary, "ON")
          /\ \E s \in LoadTidbSummaries : stmt_summary' = SomeSummary(s)
          /\ lpc' = "system_metrics"
          /\ UNCHANGED loaded
       \/ /\ Failed("query")
          /\ UNCHANGED stmt_summary
    /\ UNCHANGED <<analyze_before_start, server, lines, pending, analyzed,
                   interval, probes, invoked>>
    /\ UNCHANGED <<calcVars, normVars, outVars>>

\* one turn of the loop of read_tidb_system_metrics; when it returns Ok,
\* load_workload_description calls WorkloadDescription::tidb and returns
ReadTidbSystemMetrics ==
    /\ lpc = "system_metrics"
    /\ \/ \E rows \in MetricRows :
             LET m == system_metrics(rows, interval)
                 d == tidb(tables, stmt_summary, m)
             IN  /\ probes' = Append(probes, [days |-> interval, rows |-> Some(rows)])
                 /\ engine' = "tidb"
                 /\ summary' = stmt_summary
                 /\ metrics' = m
                 /\ description' = d
                 /\ divisors' = Evaluated(tidb_divisors(tables, stmt_summary))
                 /\ advisories' = tidb_advisories(stmt_summary)
                 /\ invoked' = Append(invoked, "tidb")
                 /\ lpc' = "returned"
                 /\ loaded' = LoadedSome(d.value)
                 /\ UNCHANGED interval
       \/ /\ probes' = Append(probes, [days |-> interval, rows |-> NoRows])
          /\ IF interval = 1
             THEN /\ Failed("metrics_schema")
                  /\ UNCHANGED interval
             ELSE /\ interval' = interval - 1
                  /\ UNCHANGED <<lpc, loaded>>
          /\ UNCHANGED <<engine, summary, metrics, description, divisors,
                         advisories, invoked>>
       \/ /\ Failed("query")
          /\ UNCHANGED <<probes, interval, invoked>>
          /\ UNCHANGED <<engine, summary, metrics, description, divisors, advisories>>
    /\ UNCHANGED <<analyze_before_start, server, lines, pending, analyzed,
                   stmt_summary, tables>>
    /\ UNCHANGED <<calcVars, outVars>>

\* `else if is_mysql_performance_schema_enabled(&pool).await?`
IsMysqlPerformanceSchemaEnabled ==
    /\ lpc = "is_performance_schema"
    /\ \E ok \in BOOLEAN :
          IF ok
          THEN /\ lpc' = IF check_variable_value(server.performance_schema, "ON")
                         THEN "mysql_summary" ELSE "is_mariadb"
               /\ UNCHANGED loaded
          ELSE Failed("query")
    /\ UNCHANGED <<analyze_before_start, server, lines, pending, analyzed,
                   stmt_summary, interval, probes, invoked>>
    /\ UNCHANGED <<calcVars, normVars, outVars>>

\* read_mysql_statements_summary(..).await?, then WorkloadDescription::mysql
ReadMysqlStatementsSummary ==
    /\ lpc = "mysql_summary"
    /\ \/ \E s \in LoadMysqlSummaries :
             LET d == mysql(tables, s)
             IN  /\ engine' = "mysql"
                 /\ summary' = SomeSummary(s)
                 /\ description' = d
                 /\ divisors' = Evaluated(mysql_divisors(tables, s))
                 /\ advisories' = mysql_advisories(s)
                 /\ invoked' = Append(invoked, "mysql")
                 /\ lpc' = "returned"
                 /\ loaded' = LoadedSome(d.value)
       \/ /\ Failed("query")
          /\ UNCHANGED <<engine, summary, description, divisors, advisories, invoked>>
    /\ UNCHANGED <<analyze_before_start, server, lines, pending, analyzed,
                   stmt_summary, interval, probes, tables, metrics>>
    /\ UNCHANGED <<calcVars, outVars>>

\* `else if is_mariadb(&pool).await? { Err(..) } else { Err(..) }`
IsMariadb ==
    /\ lpc = "is_mariadb"
    /\ \E ok \in BOOLEAN :
          IF ok
          THEN IF is_mariadb(server.version)
               THEN Failed("enable_mariadb_performance_schema")
               ELSE Failed("enable_mysql_performance_schema")
          ELSE Failed("query")
    /\ UNCHANGED <<analyze_before_start, server, lines, pending, analyzed,
                   stmt_summary, interval, probes, invoked>>
    /\ UNCHANGED <<calcVars, normVars, outVars>>

LoadNext ==
    \/ Connect
    \/ Confirm
    \/ RunAnalyze
    \/ AnalyzeTable
    \/ ReadTablesInformation
    \/ IsTidb
    \/ IsTidbServerless
    \/ ReadTidbStatementsSummary
    \/ ReadTidbSystemMetrics
    \/ IsMysqlPerformanceSchemaEnabled
    \/ ReadMysqlStatementsSummary
    \/ IsMariadb

LoadSpec == LoadInit /\ [][LoadNext]_vars

----------------------------------------------------------------------------
(* Claims about the calculator, checked under Spec *)

\* The pricing table of the specification, in cents:
\* <<storage price, RU price, free credit>>
PriceTable ==
    [r \in {"us-east-1", "us-west-2", "eu-central-1", "ap-southeast-1", "ap-northeast-1"} |->
        IF r \in {"us-east-1", "us-west-2"} THEN <<20, 10, 600>> ELSE <<24, 12, 720>>]

\* an amount of `cents` cents in the unit of the estimation's fields
Dollars(cents) == cents * 1024

EstimateReturned == pc \in {"done", "reported"}
Indices == 1..Len(workloads)

\* C1: for every region string that is not one of the five of the table,
\* estimate fails with the invalid-region error carrying that string, for any
\* workload list, and returns no estimation.
C1_InvalidRegionFails ==
    (EstimateReturned /\ region \notin DOMAIN PriceTable) =>
        /\ ~result.is_ok
        /\ result.error = region
        /\ result.value = <<>>

C1_Witness ==
    /\ EstimateReturned
    /\ region = "US-EAST-1"
    /\ Len(workloads) = 2
    /\ workloads[1].storage.data_in_bytes = GiB
    /\ ~result.is_ok

IsZeroUsage(w) ==
    /\ unwrap_or(w.read.requests_per_hour, 0) = 0
    /\ unwrap_or(w.write.requests_per_hour, 0) = 0
    /\ w.read.bytes_per_hour = 0
    /\ w.write.bytes_per_hour = 0
    /\ w.egress.bytes_per_hour = 0
    /\ w.storage.data_in_bytes = 0
    /\ w.storage.index_in_bytes = 0

\* C2: for each of the five table regions estimate succeeds and applies
\* exactly that region's (storage price, RU price, free credit) triple; for a
\* zero-usage workload the result is storage_cost = 0, request_units_cost = 0
\* and free_credit = the table value.
C2_TablePricesApplied ==
    (EstimateReturned /\ region \in DOMAIN PriceTable) =>
        /\ result.is_ok
        /\ Len(result.value) = Len(workloads)
        /\ \A i \in Indices :
              LET e == result.value[i]
                  u == usages[i]
                  p == PriceTable[region]
              IN  /\ e.free_credit = Dollars(p[3])
                  /\ e.storage_cost = u.row_based_storage_in_mib * p[1]
                  /\ e.request_units_cost =
                        (u.network_egress_in_mib + 1024 * u.request_units_in_million) * p[2]
                  /\ IsZeroUsage(workloads[i]) =>
                        (e.storage_cost = 0 /\ e.request_units_cost = 0)

C2_Witness ==
    /\ EstimateReturned
    /\ region = "eu-central-1"
    /\ Len(workloads) = 2
    /\ IsZeroUsage(workloads[1])
    /\ workloads[2].storage.data_in_bytes = GiB
    /\ result.is_ok
    /\ result.value[1] = [storage_cost |-> 0, request_units_cost |-> 0,
                          free_credit |-> Dollars(720)]
    /\ result.value[2].storage_cost = Dollars(24)

\* C3: for a valid region and a list of N workloads estimate returns exactly
\* N estimations, and estimation[i] equals the single estimation obtained by
\* calling estimate on the one-element list [workload[i]] alone.
C3_BatchIsItemwise ==
    (EstimateReturned /\ region \in DOMAIN PriceTable) =>
        /\ result.is_ok
        /\ Len(result.value) = Len(workloads)
        /\ \A i \in Indices :
              LET single == estimate(region, <<workloads[i]>>)
              IN  /\ single.is_ok
                  /\ Len(single.value) = 1
                  /\ result.value[i] = single.value[1]

C3_Witness ==
    /\ EstimateReturned
    /\ result.is_ok
    /\ Len(workloads) = 2
    /\ Len(result.value) = 2
    /\ result.value[1].storage_cost > result.value[2].storage_cost
    /\ result.value[1].request_units_cost < result.value[2].request_units_cost

\* The example of C4: read.requests_per_hour = 8,000,000 and every other field 0
C4_Example == Description(Some(8000000), 0, Some(0), 0, None, 0, 0, 0)

\* C4: request_units_in_million = (read_request_units_per_hour +
\* write_request_units_per_hour) * 730 / 1_000_000, so that in eu-central-1 a
\* workload with read.requests_per_hour = 8,000,000 and every other field 0
\* yields request_units_in_million = 730 and request_units_cost = 87.60.
C4_PerMillionUnits ==
    EstimateReturned =>
        \A i \in Indices :
            /\ usages[i].request_units_in_million =
                  ((read_request_units_per_hour(workloads[i])
                      + write_request_units_per_hour(workloads[i])) * 730) \div 1000000
            /\ (region = "eu-central-1" /\ workloads[i] = C4_Example) =>
                  /\ usages[i].request_units_in_million = 730
                  /\ result.value[i].request_units_cost = Dollars(8760)

\* The example of C5: data_in_bytes = 1 GiB and every other field 0
C5_Example == Description(Some(0), 0, Some(0), 0, None, 0, 1024 * 1024 * 1024, 0)

\* C5: storage_cost = ((data_in_bytes + index_in_bytes) / (1024*1024)) *
\* storage_price / 1024 with the byte-to-MiB step an integer division; in
\* us-east-1 a workload with data_in_bytes = 1 GiB and all else 0 yields
\* storage_cost = 0.20; storage_cost is never negative.
C5_StorageCost ==
    (EstimateReturned /\ result.is_ok) =>
        \A i \in Indices :
            LET w == workloads[i]
                e == result.value[i]
            IN  /\ e.storage_cost =
                      ((w.storage.data_in_bytes + w.storage.index_in_bytes)
                          \div (1024 * 1024)) * PriceTable[region][1]
                /\ e.storage_cost >= 0
                /\ (region = "us-east-1" /\ w = C5_Example) =>
                      e.storage_cost = Dollars(20)

C5_Witness ==
    /\ EstimateReturned
    /\ result.is_ok
    /\ region = "us-east-1"
    /\ Len(workloads) = 2
    /\ workloads[1] = C5_Example
    /\ result.value[1].storage_cost = Dollars(20)
    /\ workloads[2].storage.data_in_bytes = 1024 * 1024 - 1
    /\ workloads[2].storage.index_in_bytes = 1024 * 1024
    /\ result.value[2].storage_cost = 20

\* the estimation estimate returns for the single workload w in the region
EstimationOf(w) == estimate(region, <<w>>).value[1]

WithData(w, d) == [w EXCEPT !.storage.data_in_bytes = d]
MiBOf(w) == (w.storage.data_in_bytes + w.storage.index_in_bytes) \div (1024 * 1024)

\* C6 as stated: for any valid region and any two workloads that differ only
\* in storage.data_in_bytes, the one with the strictly larger data_in_bytes
\* has a strictly larger storage_cost.
C6_StorageStrictlyMonotone ==
    (EstimateReturned /\ result.is_ok) =>
        \A i \in Indices : \A d \in DataBytes :
            d > workloads[i].storage.data_in_bytes =>
                EstimationOf(WithData(workloads[i], d)).storage_cost
                    > result.value[i].storage_cost

\* C6 as amended: the workload with the larger data_in_bytes never has a
\* smaller storage_cost, and has a strictly larger one exactly when its whole
\* number of MiB, (data_in_bytes + index_in_bytes) / (1024*1024), is larger.
C6_StorageMonotone ==
    (EstimateReturned /\ result.is_ok) =>
        \A i \in Indices : \A d \in DataBytes :
            d > workloads[i].storage.data_in_bytes =>
                LET larger == EstimationOf(WithData(workloads[i], d)).storage_cost
                    cost   == result.value[i].storage_cost
                IN  /\ larger >= cost
                    /\ (larger > cost) <=>
                          (MiBOf(WithData(workloads[i], d)) > MiBOf(workloads[i]))

C6_Witness ==
    /\ EstimateReturned
    /\ result.is_ok
    /\ Len(workloads) = 1
    /\ workloads[1].storage.data_in_bytes = 1
    /\ workloads[1].storage.index_in_bytes = 1024 * 1024
    /\ EstimationOf(WithData(workloads[1], 1024 * 1024 - 1)).storage_cost
          = result.value[1].storage_cost
    /\ EstimationOf(WithData(workloads[1], 1024 * 1024)).storage_cost
          > result.value[1].storage_cost

WithReadRequests(w, r) == [w EXCEPT !.read.requests_per_hour = r]
WithWriteRequests(w, r) == [w EXCEPT !.write.requests_per_hour = r]

\* the whole number of request units (in units of 1024*1024) of a month
MonthlyUnitsOf(w) ==
    (((w.read.requests_per_hour.value \div 8) + (w.read.bytes_per_hour \div 65536)
        + (w.write.requests_per_hour.value + (w.write.bytes_per_hour \div 1024)) * 3)
      * 730) \div (1024 * 1024)

HasBothRequests(w) ==
    w.read.requests_per_hour.is_some /\ w.write.requests_per_hour.is_some

\* the pairs <<workload of the call, the same workload with a strictly larger
\* read (or write) request rate>>
LargerRequests(w) ==
    {WithReadRequests(w, r) : r \in {q \in ReadRequests :
        q.is_some /\ q.value > w.read.requests_per_hour.value}}
    \cup {WithWriteRequests(w, r) : r \in {q \in WriteRequests :
        q.is_some /\ q.value > w.write.requests_per_hour.value}}

\* C7 as stated: for any valid region and any two workloads that differ only
\* in read.requests_per_hour (or only in write.requests_per_hour), the one
\* with the strictly larger request rate has a strictly larger
\* request_units_cost.
C7_RequestsStrictlyMonotone ==
    (EstimateReturned /\ result.is_ok) =>
        \A i \in Indices :
            HasBothRequests(workloads[i]) =>
                \A v \in LargerRequests(workloads[i]) :
                    EstimationOf(v).request_units_cost
                        > result.value[i].request_units_cost

\* C7 as amended: the workload with the larger request rate never has a
\* smaller request_units_cost, and has a strictly larger one exactly when its
\* whole number of monthly request units, request_units_in_million, is larger.
C7_RequestsMonotone ==
    (EstimateReturned /\ result.is_ok) =>
        \A i \in Indices :
            HasBothRequests(workloads[i]) =>
                \A v \in LargerRequests(workloads[i]) :
                    LET larger == EstimationOf(v).request_units_cost
                        cost   == result.value[i].request_units_cost
                    IN  /\ larger >= cost
                        /\ (larger > cost) <=>
                              (MonthlyUnitsOf(v) > MonthlyUnitsOf(workloads[i]))

C7_Witness ==
    /\ EstimateReturned
    /\ result.is_ok
    /\ Len(workloads) = 1
    /\ workloads[1].read.requests_per_hour = Some(7)
    /\ workloads[1].write.requests_per_hour = Some(1)
    /\ EstimationOf(WithReadRequests(workloads[1], Some(8))).request_units_cost
          = result.value[1].request_units_cost
    /\ EstimationOf(WithReadRequests(workloads[1], Some(8000000))).request_units_cost
          > result.value[1].request_units_cost
    /\ EstimationOf(WithWriteRequests(workloads[1], Some(500000))).request_units_cost
          > result.value[1].request_units_cost

\* C9 as stated: network_egress_in_mib = egress.bytes_per_hour / (1024*1024),
\* with no hours-per-month factor applied to it, and request_units_cost =
\* (network_egress_in_mib/1024 + request_units_in_million) * ru_price.
C9_EgressHourly ==
    EstimateReturned =>
        \A i \in Indices :
            /\ usages[i].network_egress_in_mib =
                  workloads[i].egress.bytes_per_hour \div (1024 * 1024)
            /\ result.is_ok =>
                  result.value[i].request_units_cost =
                      (usages[i].network_egress_in_mib
                          + 1024 * usages[i].request_units_in_million)
                        * PriceTable[region][2]

\* C9 as amended: network_egress_in_mib = egress.bytes_per_hour * 730 /
\* (1024*1024), the hours-per-month factor applied before the integer
\* division, and request_units_cost =
\* (network_egress_in_mib/1024 + request_units_in_million) * ru_price.
C9_EgressMonthly ==
    EstimateReturned =>
        \A i \in Indices :
            /\ usages[i].network_egress_in_mib =
                  (workloads[i].egress.bytes_per_hour * 730) \div (1024 * 1024)
            /\ result.is_ok =>
                  result.value[i].request_units_cost =
                      (usages[i].network_egress_in_mib
                          + 1024 * usages[i].request_units_in_million)
                        * PriceTable[region][2]

C9_Witness ==
    /\ EstimateReturned
    /\ result.is_ok
    /\ region = "ap-northeast-1"
    /\ Len(workloads) = 1
    /\ workloads[1].egress.bytes_per_hour = 2 * 1024 * 1024
    /\ workloads[1].read.requests_per_hour = Some(8000000)
    /\ usages[1].network_egress_in_mib = 1460
    /\ usages[1].request_units_in_million > 0
    /\ result.value[1].request_units_cost =
          (1460 + 1024 * usages[1].request_units_in_million) * 12

\* C10: whenever the calculator computes read or write request units from a
\* description whose read or write requests_per_hour is absent, the request
\* count it uses is derived and not taken to be 0.
C10_AbsentRequestsNotZero ==
    EstimateReturned =>
        \A i \in Indices :
            /\ ~workloads[i].read.requests_per_hour.is_some =>
                  read_requests_used(workloads[i]) # 0
            /\ ~workloads[i].write.requests_per_hour.is_some =>
                  write_requests_used(workloads[i]) # 0

----------------------------------------------------------------------------
(* Claims about the normalizers, checked under NormSpec *)

Normalized == engine # "none"

IsAbsentOrZero(opt) == ~opt.is_some \/ opt.value = 0

\* every table statistic absent or 0, every summary and metric count 0, and
\* a window of zero or negative length
AllStatisticsZero ==
    /\ IsAbsentOrZero(tables.total_rows)
    /\ IsAbsentOrZero(tables.total_data_in_bytes)
    /\ IsAbsentOrZero(tables.total_index_in_bytes)
    /\ metrics = [write_bytes_per_hour |-> 0, write_requests_per_hour |-> 0,
                  read_bytes_per_hour |-> 0, read_requests_per_hour |-> 0]
    /\ summary.is_some =>
          /\ summary.value.end_time <= summary.value.start_time
          /\ summary.value.read_queries = 0
          /\ summary.value.read_rows = 0
          /\ summary.value.sent_rows = 0
          /\ summary.value.write_queries = 0
          /\ engine = "mysql" => summary.value.write_rows = 0
          /\ engine = "tidb" => summary.value.write_bytes = 0

IsRequestDescription(r) ==
    /\ DOMAIN r = {"requests_per_hour", "bytes_per_hour"}
    /\ r.requests_per_hour.is_some \in BOOLEAN
    /\ r.requests_per_hour.value \in Nat
    /\ r.bytes_per_hour \in Nat

IsWorkloadDescription(d) ==
    /\ DOMAIN d = {"read", "write", "egress", "storage"}
    /\ IsRequestDescription(d.read)
    /\ IsRequestDescription(d.write)
    /\ IsRequestDescription(d.egress)
    /\ d.storage.data_in_bytes \in Nat
    /\ d.storage.index_in_bytes \in Nat

\* C8: in both normalizers (mysql, and tidb with or without a statement
\* summary), when every table statistic is absent or 0, every summary/metric
\* count is 0 and the window length is zero or negative, every division has
\* a divisor of at least 1, no division by zero or panic occurs, and a
\* well-defined WorkloadDescription is returned (zero, with the request
\* rates of mysql clamped to their minimum of 1).
C8_DivisorSafety ==
    (Normalized /\ AllStatisticsZero) =>
        /\ \A i \in 1..Len(divisors) : divisors[i] >= 1
        /\ engine = "mysql" => Len(divisors) = 11
        /\ engine = "tidb" => Len(divisors) = (IF summary.is_some THEN 3 ELSE 0)
        /\ ~description.panicked
        /\ IsWorkloadDescription(description.value)
        /\ description.value =
              LET n == IF engine = "mysql" THEN 1 ELSE 0
              IN  [read    |-> [requests_per_hour |-> Some(n), bytes_per_hour |-> 0],
                   write   |-> [requests_per_hour |-> Some(n), bytes_per_hour |-> 0],
                   egress  |-> [requests_per_hour |-> None, bytes_per_hour |-> 0],
                   storage |-> [data_in_bytes |-> 0, index_in_bytes |-> 0]]

C8_Witness ==
    /\ Normalized
    /\ AllStatisticsZero
    /\ engine = "mysql"
    /\ tables.total_rows = None
    /\ tables.total_data_in_bytes = Some(0)
    /\ summary.value.end_time < summary.value.start_time
    /\ Len(divisors) = 11
    /\ ~description.panicked
    /\ description.value.read.requests_per_hour = Some(1)

----------------------------------------------------------------------------
(* Claims about the report and the request units, checked under Spec *)

HumanReported == pc = "reported" /\ format = "Human"

\* C11: free credit is carried through unapplied: estimate returns
\* free_credit equal to the region's flat value and storage_cost and
\* request_units_cost never have it subtracted; the presented total is
\* max(0, storage_cost + request_units_cost - free_credit), exactly 0 whenever
\* storage_cost + request_units_cost <= free_credit and the positive
\* difference otherwise, so the total is never negative.
C11_CreditAppliedAtPresentation ==
    /\ (EstimateReturned /\ result.is_ok) =>
          \A i \in Indices :
              /\ result.value[i].free_credit = Dollars(PriceTable[region][3])
              /\ result.value[i].storage_cost =
                    usages[i].row_based_storage_in_mib * PriceTable[region][1]
              /\ result.value[i].request_units_cost =
                    (usages[i].network_egress_in_mib
                        + 1024 * usages[i].request_units_in_million)
                      * PriceTable[region][2]
    /\ HumanReported =>
          /\ Len(presented) = Len(result.value)
          /\ \A i \in Indices :
                LET e   == result.value[i]
                    due == e.storage_cost + e.request_units_cost - e.free_credit
                IN  /\ presented[i].amount = Max(0, due)
                    /\ presented[i].amount >= 0
                    /\ presented[i].cents >= 0
                    /\ due <= 0 => presented[i] = [amount |-> 0, cents |-> 0]
                    /\ due > 0 => presented[i].amount = due

C11_Witness ==
    /\ HumanReported
    /\ region = "us-east-1"
    /\ Len(workloads) = 2
    /\ workloads[1].read.requests_per_hour = Some(691200)
    /\ result.value[1].request_units_cost = result.value[1].free_credit
    /\ presented[1] = [amount |-> 0, cents |-> 0]
    /\ workloads[2].read.requests_per_hour = Some(8000000)
    /\ presented[2].amount =
          result.value[2].storage_cost + result.value[2].request_units_cost
              - Dollars(600)
    /\ presented[2].amount > 0

\* C12: read_request_units_per_hour = read.requests_per_hour/8 +
\* read.bytes_per_hour/(64*1024) and write_request_units_per_hour =
\* (write.requests_per_hour + write.bytes_per_hour/1024) * 3 in unsigned
\* integer arithmetic, and their sum is the per-hour figure that is scaled to
\* the month (for descriptions whose read and write request rates are present).
C12_RequestUnitsPerHour ==
    EstimateReturned =>
        \A i \in Indices :
            LET w == workloads[i]
                reads  == (w.read.requests_per_hour.value \div 8)
                              + (w.read.bytes_per_hour \div (64 * 1024))
                writes == (w.write.requests_per_hour.value
                              + (w.write.bytes_per_hour \div 1024)) * 3
            IN  HasBothRequests(w) =>
                    /\ read_request_units_per_hour(w) = reads
                    /\ write_request_units_per_hour(w) = writes
                    /\ request_units_per_hour(w) = reads + writes
                    /\ usages[i].request_units_in_million =
                          ((reads + writes) * 730) \div (1024 * 1024)

C12_Witness ==
    /\ EstimateReturned
    /\ Len(workloads) = 1
    /\ workloads[1].read = [requests_per_hour |-> Some(8000000), bytes_per_hour |-> 65536]
    /\ workloads[1].write = [requests_per_hour |-> Some(500000), bytes_per_hour |-> 1024]
    /\ read_request_units_per_hour(workloads[1]) = 1000001
    /\ write_request_units_per_hour(workloads[1]) = 1500003
    /\ usages[1].request_units_in_million = 1740

----------------------------------------------------------------------------
(* Claims about the two shapes, checked under NormSpec *)

\* max(1, whole minutes of window_end minus window_start)
WindowMinutes ==
    LET s == summary.value
    IN  Max(1, IF s.end_time >= s.start_time
               THEN (s.end_time - s.start_time) \div 60
               ELSE 0)

TableBytes ==
    unwrap_or(tables.total_data_in_bytes, 0) + unwrap_or(tables.total_index_in_bytes, 0)

\* the rates Shape A gives a request count and a row count of the window:
\* <<q, bytes_per_hour, requests_per_hour>>
ShapeARates(request_count, rows_in_window) ==
    LET total_storage    == Max(1, TableBytes)
        average_row_size == total_storage \div Max(1, unwrap_or(tables.total_rows, 0))
        region_count     == total_storage \div (256 * 1024 * 1024)
        bytes_per_hour   == (60 * average_row_size * rows_in_window) \div WindowMinutes
        q                == Max(1, (60 * request_count) \div WindowMinutes)
    IN  <<q, bytes_per_hour,
          q * Max(1, ((bytes_per_hour \div q) * region_count) \div total_storage)>>

\* C13: for each of read and write, WorkloadDescription::mysql outputs
\* bytes_per_hour = 60 * average_row_size * rows_in_window / duration_minutes
\* and requests_per_hour = q * max(1, (bytes_per_hour / q) * region_count /
\* total_storage) with q = max(1, 60 * request_count / duration_minutes),
\* total_storage = max(1, data + index bytes), average_row_size =
\* total_storage / max(1, total_rows), region_count = total_storage / 256MiB;
\* the emitted requests_per_hour is present, at least q and at least 1.
C13_ShapeAAmplification ==
    engine = "mysql" =>
        LET reads  == ShapeARates(summary.value.read_queries, summary.value.read_rows)
            writes == ShapeARates(summary.value.write_queries, summary.value.write_rows)
            d      == description.value
        IN  /\ ~description.panicked
            /\ d.read = [requests_per_hour |-> Some(reads[3]), bytes_per_hour |-> reads[2]]
            /\ d.write = [requests_per_hour |-> Some(writes[3]), bytes_per_hour |-> writes[2]]
            /\ d.read.requests_per_hour.is_some /\ d.write.requests_per_hour.is_some
            /\ d.read.requests_per_hour.value >= reads[1]
            /\ d.write.requests_per_hour.value >= writes[1]
            /\ d.read.requests_per_hour.value >= 1
            /\ d.write.requests_per_hour.value >= 1

C13_Witness ==
    /\ engine = "mysql"
    /\ tables.total_data_in_bytes = Some(512 * 1024 * 1024)
    /\ summary.value.read_queries = 0
    /\ summary.value.read_rows = 4
    /\ summary.value.write_queries = 1
    /\ summary.value.write_rows = 4
    /\ summary.value.end_time = 60
    /\ description.value.read = [requests_per_hour |-> Some(3),
                                 bytes_per_hour |-> 1006632960]
    /\ description.value.write = [requests_per_hour |-> Some(60),
                                  bytes_per_hour |-> 1006632960]

\* C14: whenever a statement summary is used, duration_minutes = max(1, whole
\* minutes of window_end minus window_start); the hard warning is emitted iff
\* duration_minutes < 60, the softer one iff 60 <= duration_minutes < 1440,
\* neither otherwise and never both; in every case the normalizer returns a
\* description computed with that duration.
C14_WindowAdvisories ==
    (Normalized /\ summary.is_some) =>
        LET hard == \E i \in 1..Len(advisories) : advisories[i] = "error_less_than_an_hour"
            soft == \E i \in 1..Len(advisories) : advisories[i] = "warn_less_than_a_day"
        IN  /\ hard <=> (WindowMinutes < 60)
            /\ soft <=> (60 <= WindowMinutes /\ WindowMinutes < 1440)
            /\ ~(hard /\ soft)
            /\ Len(advisories) = (IF WindowMinutes < 1440 THEN 1 ELSE 0)
            /\ (summary.value.end_time <= summary.value.start_time) => WindowMinutes = 1
            /\ ~description.panicked
            /\ engine = "mysql" =>
                  description.value.egress.bytes_per_hour =
                      (60 * (Max(1, TableBytes) \div Max(1, unwrap_or(tables.total_rows, 0)))
                          * summary.value.sent_rows) \div WindowMinutes
            /\ engine = "tidb" =>
                  description.value.write.bytes_per_hour =
                      (60 * summary.value.write_bytes) \div WindowMinutes

C14_Witness ==
    /\ engine = "tidb"
    /\ summary.is_some
    /\ summary.value.start_time = 0
    /\ summary.value.end_time = 3600
    /\ summary.value.write_bytes = 100000
    /\ advisories = <<"warn_less_than_a_day">>
    /\ description.value.write.bytes_per_hour = 100000

\* C15: WorkloadDescription::tidb: read.requests_per_hour, read.bytes_per_hour
\* and write.requests_per_hour equal the system-metric values unchanged,
\* with or without a summary; with a summary write.bytes_per_hour = 60 *
\* summary.write_bytes / duration_minutes and egress.bytes_per_hour = 60 *
\* rows_sent * average_row_size / duration_minutes; without one an advisory
\* is emitted, write.bytes_per_hour is the metric's write_bytes_per_hour and
\* egress.bytes_per_hour is 0; egress.requests_per_hour is absent and storage
\* is the raw data/index byte totals in both cases.
C15_ShapeB ==
    engine = "tidb" =>
        LET d   == description.value
            avg == TableBytes \div Max(1, unwrap_or(tables.total_rows, 0))
            disabled == \E i \in 1..Len(advisories) :
                            advisories[i] = "warn_summary_tables_disabled"
        IN  /\ ~description.panicked
            /\ d.read = [requests_per_hour |-> Some(metrics.read_requests_per_hour),
                         bytes_per_hour |-> metrics.read_bytes_per_hour]
            /\ d.write.requests_per_hour = Some(metrics.write_requests_per_hour)
            /\ ~d.egress.requests_per_hour.is_some
            /\ d.storage = [data_in_bytes |-> unwrap_or(tables.total_data_in_bytes, 0),
                            index_in_bytes |-> unwrap_or(tables.total_index_in_bytes, 0)]
            /\ summary.is_some =>
                  /\ d.write.bytes_per_hour =
                        (60 * summary.value.write_bytes) \div WindowMinutes
                  /\ d.egress.bytes_per_hour =
                        (60 * summary.value.sent_rows * avg) \div WindowMinutes
                  /\ ~disabled
            /\ ~summary.is_some =>
                  /\ disabled
                  /\ d.write.bytes_per_hour = metrics.write_bytes_per_hour
                  /\ d.egress.bytes_per_hour = 0

C15_Witness ==
    /\ engine = "tidb"
    /\ summary.is_some
    /\ summary.value.sent_rows = 5
    /\ summary.value.write_bytes = 100000
    /\ summary.value.end_time = 1800
    /\ tables.total_rows = Some(1000)
    /\ tables.total_data_in_bytes = Some(4 * 1024 * 1024)
    /\ tables.total_index_in_bytes = Some(1024 * 1024)
    /\ metrics = [write_bytes_per_hour |-> 2048, write_requests_per_hour |-> 30,
                  read_bytes_per_hour |-> 131072, read_requests_per_hour |-> 80]
    /\ description.value.read = [requests_per_hour |-> Some(80), bytes_per_hour |-> 131072]
    /\ description.value.write = [requests_per_hour |-> Some(30), bytes_per_hour |-> 200000]
    /\ description.value.egress = [requests_per_hour |-> None, bytes_per_hour |-> 52420]

----------------------------------------------------------------------------
(* Loading a workload description *)

LoadReturned == lpc = "returned"

\* a query, the connection or the read of a line failed
StepFailed == loaded.kind = "err" /\ loaded.error \in {"query", "io"}

DetectedTidb == is_tidb(server.version)
DetectedServerless == DetectedTidb /\ is_tidb_serverless(server.version)
PerformanceSchemaOn ==
    server.performance_schema.is_some /\ server.performance_schema.value = "ON"

\* C16: the engines are dispatched exclusively and in order: at most one
\* normalizer runs, and it runs last; a server detected as TiDB
\* serverless gets Ok(None) and no normalizer; any other TiDB is normalized
\* only by tidb; a server that is not TiDB and has performance_schema ON is
\* normalized only by mysql; every other server gets an error and no
\* description.  A call returns otherwise only when one of its queries fails or
\* the metrics schema cannot be read.
C16_EngineDispatch ==
    /\ Len(invoked) <= 1
    /\ invoked # <<>> => LoadReturned
    /\ loaded.kind = "some" <=> invoked # <<>>
    /\ loaded.kind = "some" => /\ engine = invoked[1]
                               /\ loaded.value = description.value
    /\ DetectedServerless =>
          /\ invoked = <<>>
          /\ LoadReturned => loaded.kind = "none" \/ StepFailed
    /\ DetectedTidb /\ ~DetectedServerless =>
          /\ invoked \in {<<>>, <<"tidb">>}
          /\ LoadReturned =>
                \/ loaded.kind = "some" /\ loaded.value = tidb(tables, stmt_summary, metrics).value
                \/ StepFailed
                \/ loaded.kind = "err" /\ loaded.error = "metrics_schema"
    /\ ~DetectedTidb /\ PerformanceSchemaOn =>
          /\ invoked \in {<<>>, <<"mysql">>}
          /\ LoadReturned =>
                \/ loaded.kind = "some" /\ loaded.value = mysql(tables, summary.value).value
                \/ StepFailed
    /\ ~DetectedTidb /\ ~PerformanceSchemaOn =>
          /\ invoked = <<>>
          /\ LoadReturned => loaded.kind = "err"

\* a serverless cluster, told by a version in capitals, returned Ok(None)
C16_Witness ==
    /\ LoadReturned
    /\ DetectedServerless
    /\ At(server.version, 8) = "T"
    /\ At(server.version, 9) = "I"
    /\ loaded.kind = "none"
    /\ analyzed # <<>>

\* the sum of the rows of a type, an absent sum counted as 0
SumOf(rows, type) ==
    IF \E i \in 1..Len(rows) : rows[i][1] = type /\ rows[i][2].is_some
    THEN (CHOOSE r \in {rows[i] : i \in 1..Len(rows)} : r[1] = type)[2].value
    ELSE 0

\* C17: provided the window-bounds queries succeed, read_tidb_system_metrics
\* probes the windows of 7, 6, ..., 1 days in this order, goes on only after a
\* failed metrics query, returns at the first success each sum divided by the
\* hours of that window (an absent sum counted as 0), fails only after the
\* window of 1 day failed, and runs at most 7 metrics queries: while it loops,
\* the windows left and the queries run add up to 7.
C17_MetricsRetry ==
    /\ Len(probes) <= 7
    /\ \A k \in 1..Len(probes) : probes[k].days = 8 - k
    /\ \A k \in 1..(Len(probes) - 1) : ~probes[k].rows.is_some
    /\ lpc = "system_metrics" =>
          /\ interval \in 1..7
          /\ Len(probes) = 7 - interval
          /\ \A k \in 1..Len(probes) : ~probes[k].rows.is_some
          /\ ENABLED ReadTidbSystemMetrics
    /\ invoked = <<"tidb">> =>
          /\ probes # <<>>
          /\ probes[Len(probes)].rows.is_some
          /\ LET last == probes[Len(probes)]
                 hours == last.days * 24
             IN  metrics =
                    [write_bytes_per_hour |-> SumOf(last.rows.value, "write_bytes") \div hours,
                     write_requests_per_hour |-> SumOf(last.rows.value, "write_requests") \div hours,
                     read_bytes_per_hour |-> SumOf(last.rows.value, "read_bytes") \div hours,
                     read_requests_per_hour |-> SumOf(last.rows.value, "read_requests") \div hours]
    /\ loaded.error = "metrics_schema" =>
          /\ Len(probes) = 7
          /\ \A k \in 1..7 : ~probes[k].rows.is_some

\* six windows failed, the window of 1 day gave read_requests only
C17_Witness ==
    /\ LoadReturned
    /\ Len(probes) = 7
    /\ probes[7].days = 1
    /\ probes[7].rows.is_some
    /\ Len(probes[7].rows.value) = 1
    /\ metrics.read_requests_per_hour = 1
    /\ invoked = <<"tidb">>

AnswerOf(line) == to_lowercase(trim(line))
Yes == <<"y", "e", "s">>
No == <<"n", "o">>
AnalyzeStarted == analyzed # <<>> \/ lpc \in {"run_analyze", "analyze_table"}

\* C18: ANALYZE starts only when analyze_before_start is set and a line that,
\* trimmed and lower-cased, is "yes" was read before; after a "no" the flow
\* ends without an error or an ANALYZE and loading goes on with the tables;
\* any other line, the empty one too, leads to another prompt and no ANALYZE.
C18_ConfirmationSafety ==
    /\ [](AnalyzeStarted =>
             /\ analyze_before_start
             /\ \E k \in 1..Len(lines) : AnswerOf(lines[k]) = Yes)
    /\ []((\E k \in 1..Len(lines) : AnswerOf(lines[k]) = No) =>
             /\ ~AnalyzeStarted
             /\ lpc # "confirm")
    /\ [][lines' # lines =>
             LET answer == AnswerOf(lines'[Len(lines')])
             IN  /\ answer = No =>
                       lpc' = "read_tables" /\ loaded' = NotLoaded /\ analyzed' = <<>>
                 /\ answer \notin {Yes, No} =>
                       lpc' = "confirm" /\ loaded' = NotLoaded /\ analyzed' = <<>>]_vars

\* an empty line, then a "YES" between blanks, and both tables were analyzed
C18_Witness ==
    /\ Len(lines) = 2
    /\ lines[1] = <<>>
    /\ lines[2] # Yes
    /\ AnswerOf(lines[2]) = Yes
    /\ analyzed = <<"t1", "t2">>

====
